---- MODULE Spec2Model ----
(***************************************************************************)
(* Model of proprietary-deduper.py: ProprietaryFileDeduplicator.           *)
(*                                                                         *)
(* A text is a sequence of characters.  The alphabet is                    *)
(*   "#"   the section / comment marker                                    *)
(*   " "   a blank, "\n" the line terminator (both are whitespace)         *)
(*   "a", "b"  ordinary characters of an entry                             *)
(*   EF    one token standing for the substring "extracted from"; the      *)
(*         substring has no whitespace at either end and no "#", so        *)
(*         strip, rstrip and split treat it like an ordinary character     *)
(*         and `"extracted from" in line` is the presence of the token.    *)
(* The two paths name two different files.                                 *)
(***************************************************************************)
EXTENDS Integers, Sequences, FiniteSets, TLC

VARIABLES
    commonStatus,   \* what common_file names: "file", "dir" or "missing"
    deviceStatus,   \* what device_file names
    commonText,     \* content of the common file
    deviceText,     \* content of the device file
    dry_run,        \* self.dry_run
    common_entries, \* self.common_entries
    source_line,    \* self.source_line: <<>> is None, <<l>> the captured line
    sections,       \* process_device_file: sections
    next_section,   \* process_device_file: position of the for loop over sections
    output_lines,   \* process_device_file: output_lines
    removed_count,  \* process_device_file: removed_count
    removing,       \* the lines passed to log("Removing duplicate: ...")
    new_content,    \* deduplicate: new_content (<<>> until computed)
    reads,          \* number of file contents read by this run
    writes,         \* number of file writes made by this run
    rewritten,      \* the device file holds the output of an earlier run
    exit_status,    \* -1 while running, else the process exit status
    pc              \* position of the run

vars == << commonStatus, deviceStatus, commonText, deviceText, dry_run,
           common_entries, source_line, sections, next_section, output_lines,
           removed_count, removing, new_content, reads, writes, rewritten,
           exit_status, pc >>

----------------------------------------------------------------------------
(* Characters and Python string primitives *)

NL == "\n"
EF == "extracted from"
Hash == "#"
Whitespace == {" ", NL}

None == << >>

\* str.rstrip()
RECURSIVE RStrip(_)
RStrip(s) ==
    IF s = << >> \/ s[Len(s)] \notin Whitespace
    THEN s
    ELSE RStrip(SubSeq(s, 1, Len(s) - 1))

\* str.lstrip()
RECURSIVE LStrip(_)
LStrip(s) ==
    IF s = << >> \/ s[1] \notin Whitespace
    THEN s
    ELSE LStrip(Tail(s))

\* str.strip()
Strip(s) == LStrip(RStrip(s))

\* "extracted from" in line
ContainsEF(line) == \E i \in 1..Len(line) : line[i] = EF

\* line.startswith('#')
StartsWithHash(line) == Len(line) > 0 /\ line[1] = Hash

\* position of the first c in s, 0 when there is none
FirstIndex(s, c) ==
    IF \E i \in 1..Len(s) : s[i] = c
    THEN CHOOSE i \in 1..Len(s) : s[i] = c /\ \A j \in 1..(i - 1) : s[j] # c
    ELSE 0

\* str.split('#', maxsplit); maxsplit = -1 is no limit
RECURSIVE Split(_, _)
Split(s, maxsplit) ==
    LET i == FirstIndex(s, Hash) IN
    IF i = 0 \/ maxsplit = 0
    THEN << s >>
    ELSE << SubSeq(s, 1, i - 1) >> \o
         Split(SubSeq(s, i + 1, Len(s)),
               IF maxsplit < 0 THEN maxsplit ELSE maxsplit - 1)

\* f.readlines(): the lines of a text, each with its terminator
RECURSIVE ReadLines(_)
ReadLines(text) ==
    LET i == FirstIndex(text, NL) IN
    IF text = << >> THEN << >>
    ELSE IF i = 0 THEN << text >>
    ELSE << SubSeq(text, 1, i) >> \o ReadLines(SubSeq(text, i + 1, Len(text)))

\* '\n'.join(lines)
RECURSIVE Join(_)
Join(lines) ==
    IF lines = << >> THEN << >>
    ELSE IF Len(lines) = 1 THEN lines[1]
    ELSE lines[1] \o << NL >> \o Join(Tail(lines))

----------------------------------------------------------------------------
(* parse_file *)

Section(h, c) == [header |-> h, content |-> c]

\* variant: a source line already captured is kept
ParseSourceLineFirstWins(lines, old) ==
    IF old # None THEN old
    ELSE IF lines # << >> /\ ContainsEF(lines[1]) THEN << lines[1] >>
    ELSE old

\* lines 52-54: the source line captured from the first line, else the old one
ParseSourceLine(lines, old) ==
    IF lines # << >> /\ ContainsEF(lines[1]) THEN << lines[1] >> ELSE old

\* lines 52-54: the lines left for the section scan
ParseBody(lines) ==
    IF lines # << >> /\ ContainsEF(lines[1]) THEN Tail(lines) ELSE lines

\* lines 56-63: the for loop; st is <<sections, current_section>>,
\* current_section being None or <<section>>
RECURSIVE ParseLoop(_, _)
ParseLoop(lines, st) ==
    IF lines = << >> THEN st
    ELSE
        LET line == RStrip(lines[1])
            secs == st[1]
            cur  == st[2]
        IN  IF StartsWithHash(line)
            THEN ParseLoop(Tail(lines),
                           << IF cur # None THEN secs \o cur ELSE secs,
                              << Section(line, << >>) >> >>)
            ELSE IF cur # None /\ Strip(line) # << >>
            THEN ParseLoop(Tail(lines),
                           << secs,
                              << Section(cur[1].header,
                                         Append(cur[1].content, line)) >> >>)
            ELSE ParseLoop(Tail(lines), st)

\* variant: the scan starts with a section already open
ParseSectionsOpenAtStart(text) ==
    LET st  == ParseLoop(ParseBody(ReadLines(text)),
                         << << >>, << Section(<< >>, << >>) >> >>)
        cur == st[2]
    IN  IF cur # None /\ (cur[1].content # << >> \/ cur[1].header # << >>)
        THEN st[1] \o cur
        ELSE st[1]

\* lines 45-68: the sections parse_file returns for a text
ParseSections(text) ==
    LET st  == ParseLoop(ParseBody(ReadLines(text)), << << >>, None >>)
        cur == st[2]
    IN  IF cur # None /\ (cur[1].content # << >> \/ cur[1].header # << >>)
        THEN st[1] \o cur
        ELSE st[1]

----------------------------------------------------------------------------
(* load_common_entries *)

\* line 76
CommonEntry(line) == Strip(Split(line, -1)[1])

\* variant: the empty entry is not left out
LoadedEntriesUnfiltered(secs) ==
    UNION { { CommonEntry(secs[i].content[j]) :
                j \in 1..Len(secs[i].content) } :
            i \in 1..Len(secs) }

\* lines 73-78
LoadedEntries(secs) ==
    LET entries == UNION { { CommonEntry(secs[i].content[j]) :
                               j \in 1..Len(secs[i].content) } :
                           i \in 1..Len(secs) }
    IN  { entry \in entries : entry # << >> }

----------------------------------------------------------------------------
(* process_device_file *)

\* variant: the inline comment is not split off
DeviceEntryWholeLine(line) == Strip(line)

\* lines 100-101
DeviceEntry(line) == Strip(Split(line, 1)[1])

\* line 103
IsDuplicate(line, entries) == DeviceEntry(line) \in entries

\* variant: kept lines are inserted at the front of filtered_content
FilteredContentReversed(content, entries) ==
    LET kept == SelectSeq(content, LAMBDA line : ~IsDuplicate(line, entries))
    IN  [ i \in 1..Len(kept) |-> kept[Len(kept) + 1 - i] ]

\* lines 98-107: filtered_content
FilteredContent(content, entries) ==
    SelectSeq(content, LAMBDA line : ~IsDuplicate(line, entries))

\* lines 98-105: the lines logged as removed, removed_count counts them
RemovedContent(content, entries) ==
    SelectSeq(content, LAMBDA line : IsDuplicate(line, entries))

\* list.pop()
Pop(lines) == SubSeq(lines, 1, Len(lines) - 1)

\* variant: the header of a section left without content is not retracted
SectionOutputNoRetract(out, section, entries) ==
    IF section.content # << >>
    THEN LET filtered_content == FilteredContent(section.content, entries)
             queued == Append(out, section.header)
         IN  IF filtered_content # << >>
             THEN Append(queued \o filtered_content, << >>)
             ELSE queued
    ELSE out

\* lines 94-113: output_lines after one iteration of the loop over sections
SectionOutput(out, section, entries) ==
    IF section.content # << >>
    THEN LET filtered_content == FilteredContent(section.content, entries)
             queued == Append(out, section.header)
         IN  IF filtered_content # << >>
             THEN Append(queued \o filtered_content, << >>)
             ELSE Pop(queued)
    ELSE out

\* variant: trailing empty lines are left in place
KeepTrailingEmpty(lines) == lines

\* lines 116-117
RECURSIVE DropTrailingEmpty(_)
DropTrailingEmpty(lines) ==
    IF lines # << >> /\ lines[Len(lines)] = << >>
    THEN DropTrailingEmpty(Pop(lines))
    ELSE lines

\* variant: no newline is appended to the joined lines
RenderedNoNewline(lines) == Join(lines)

\* line 120
Rendered(lines) == Join(lines) \o << NL >>

----------------------------------------------------------------------------
(* Inputs *)

MaxCommonLines == 2
MaxDeviceLines == 4

\* the lines of the section format: headers, entries, comments
Header == << Hash >>
HeaderTrailing == << Hash, " " >>
EntryA == << "a" >>
EntryB == << "b", " " >>
EntryACommented == << "a", " ", Hash, "b" >>
EntryAIndented == << " ", "a", " ", Hash >>
CommentOnly == << " ", Hash >>

\* the lines that carry the provenance marker
CommonProvenance == << "b", EF >>
DeviceProvenance == << EF, " " >>
HeaderEF == << Hash, EF >>

CommonLines == { Header, EntryACommented, CommentOnly }
DeviceLines == { HeaderTrailing, EntryB, EntryAIndented, CommentOnly }

ProvCommonLines == { CommonProvenance, Header, EntryA }
ProvDeviceLines == { DeviceProvenance, HeaderEF, Header, EntryA }

RECURSIVE Texts(_, _)
\* the texts of at most n lines of L, every line terminated
Texts(L, n) ==
    IF n = 0 THEN { << >> }
    ELSE LET shorter == Texts(L, n - 1)
         IN  shorter \cup { l \o << NL >> \o t : l \in L, t \in shorter }

Statuses == { "file", "dir", "missing" }

\* the state of a fresh ProprietaryFileDeduplicator (lines 19-26) and of
\* the locals of the methods not entered yet
Fresh ==
    /\ common_entries = { }
    /\ source_line = None
    /\ sections = << >>
    /\ next_section = 1
    /\ output_lines = << >>
    /\ removed_count = 0
    /\ removing = << >>
    /\ new_content = << >>
    /\ reads = 0
    /\ writes = 0
    /\ exit_status = -1
    /\ pc = "validate"

InitWith(CL, DL) ==
    /\ commonStatus \in Statuses
    /\ deviceStatus \in Statuses
    /\ commonText \in Texts(CL, MaxCommonLines)
    /\ deviceText \in Texts(DL, MaxDeviceLines)
    /\ (commonStatus # "file" => commonText = << >>)
    /\ (deviceStatus # "file" => deviceText = << >>)
    /\ dry_run \in BOOLEAN
    /\ rewritten = FALSE
    /\ Fresh

Init == InitWith(CommonLines, DeviceLines)

----------------------------------------------------------------------------
(* The run: deduplicate *)

\* variant: the is_file test is missing
ValidExists(status) == status # "missing"

\* lines 33-41 and 135
Valid(status) == status = "file"

ValidateFiles ==
    /\ pc = "validate"
    /\ IF Valid(commonStatus) /\ Valid(deviceStatus)
       THEN pc' = "load" /\ exit_status' = exit_status
       ELSE pc' = "done" /\ exit_status' = 1
    /\ UNCHANGED << commonStatus, deviceStatus, commonText, deviceText,
                    dry_run, common_entries, source_line, sections,
                    next_section, output_lines, removed_count, removing,
                    new_content, reads, writes, rewritten >>

\* lines 70-80 and 136
LoadCommonEntries ==
    /\ pc = "load"
    /\ source_line' = ParseSourceLine(ReadLines(commonText), source_line)
    /\ common_entries' =
           common_entries \cup LoadedEntries(ParseSections(commonText))
    /\ reads' = reads + 1
    /\ pc' = "parse"
    /\ UNCHANGED << commonStatus, deviceStatus, commonText, deviceText,
                    dry_run, sections, next_section, output_lines,
                    removed_count, removing, new_content, writes, rewritten,
                    exit_status >>

\* lines 84-91: parse the device file, start the output with the source line
ParseDevice ==
    /\ pc = "parse"
    /\ sections' = ParseSections(deviceText)
    /\ source_line' = ParseSourceLine(ReadLines(deviceText), source_line)
    /\ output_lines' =
           IF source_line' # None
           THEN << RStrip(source_line'[1]), << >> >>
           ELSE << >>
    /\ removed_count' = 0
    /\ next_section' = 1
    /\ reads' = reads + 1
    /\ pc' = "filter"
    /\ UNCHANGED << commonStatus, deviceStatus, commonText, deviceText,
                    dry_run, common_entries, removing, new_content, writes,
                    rewritten, exit_status >>

\* lines 93-113: one iteration of the loop over sections
ProcessSection ==
    /\ pc = "filter"
    /\ next_section <= Len(sections)
    /\ LET section == sections[next_section]
           removed == RemovedContent(section.content, common_entries)
       IN  /\ output_lines' =
                  SectionOutput(output_lines, section, common_entries)
           /\ removed_count' = removed_count + Len(removed)
           /\ removing' = removing \o removed
    /\ next_section' = next_section + 1
    /\ UNCHANGED << commonStatus, deviceStatus, commonText, deviceText,
                    dry_run, common_entries, source_line, sections,
                    new_content, reads, writes, rewritten, exit_status, pc >>

\* lines 115-120 and 138: the loop is over
FinishProcess ==
    /\ pc = "filter"
    /\ next_section > Len(sections)
    /\ output_lines' = DropTrailingEmpty(output_lines)
    /\ new_content' = Rendered(output_lines')
    /\ pc' = "commit"
    /\ UNCHANGED << commonStatus, deviceStatus, commonText, deviceText,
                    dry_run, common_entries, source_line, sections,
                    next_section, removed_count, removing, reads, writes,
                    rewritten, exit_status >>

\* lines 140-142 and 122-131: show_diff reads the device file, writes nothing
DryRun ==
    /\ pc = "commit"
    /\ dry_run
    /\ reads' = reads + 1
    /\ exit_status' = 0
    /\ pc' = "done"
    /\ UNCHANGED << commonStatus, deviceStatus, commonText, deviceText,
                    dry_run, common_entries, source_line, sections,
                    next_section, output_lines, removed_count, removing,
                    new_content, writes, rewritten >>

\* lines 143-146
WriteDevice ==
    /\ pc = "commit"
    /\ ~dry_run
    /\ deviceText' = new_content
    /\ writes' = writes + 1
    /\ rewritten' = TRUE
    /\ exit_status' = 0
    /\ pc' = "done"
    /\ UNCHANGED << commonStatus, deviceStatus, commonText, dry_run,
                    common_entries, source_line, sections, next_section,
                    output_lines, removed_count, removing, new_content,
                    reads >>

\* lines 171-178: the tool is invoked again on the same two paths
RunAgain ==
    /\ pc = "done"
    /\ exit_status = 0
    /\ common_entries' = { }
    /\ source_line' = None
    /\ sections' = << >>
    /\ next_section' = 1
    /\ output_lines' = << >>
    /\ removed_count' = 0
    /\ removing' = << >>
    /\ new_content' = << >>
    /\ reads' = 0
    /\ writes' = 0
    /\ exit_status' = -1
    /\ pc' = "validate"
    /\ UNCHANGED << commonStatus, deviceStatus, commonText, deviceText,
                    dry_run, rewritten >>

Next ==
    \/ ValidateFiles
    \/ LoadCommonEntries
    \/ ParseDevice
    \/ ProcessSection
    \/ FinishProcess
    \/ DryRun
    \/ WriteDevice
    \/ RunAgain

Spec == Init /\ [][Next]_vars

\* the same program on files that carry provenance lines
InitProv == InitWith(ProvCommonLines, ProvDeviceLines)
SpecProv == InitProv /\ [][Next]_vars

----------------------------------------------------------------------------
(* Vocabulary of the properties *)

\* Entry(line): the text before the first "#" of the line, trimmed
Entry(line) ==
    LET i == FirstIndex(line, Hash)
    IN  Strip(IF i = 0 THEN line ELSE SubSeq(line, 1, i - 1))

Blank(line) == \A i \in 1..Len(line) : line[i] \in Whitespace

\* the lines of a text without their trailing whitespace
TrimmedLines(text) ==
    LET ls == ReadLines(text) IN [ i \in 1..Len(ls) |-> RStrip(ls[i]) ]

HasProvenance(text) ==
    ReadLines(text) # << >> /\ ContainsEF(ReadLines(text)[1])

FirstLine(text) == ReadLines(text)[1]

\* the trimmed lines of a text after its provenance line
StreamLines(text) ==
    IF HasProvenance(text) THEN Tail(TrimmedLines(text)) ELSE TrimmedLines(text)

\* the lines of the stream from its first header line on
FromFirstHeader(text) ==
    LET ls == StreamLines(text)
        heads == { i \in 1..Len(ls) : StartsWithHash(ls[i]) }
    IN  IF heads = { } THEN << >>
        ELSE SubSeq(ls, CHOOSE i \in heads : \A j \in heads : i <= j, Len(ls))

\* the non-blank lines of the stream before its first header line
BeforeFirstHeader(text) ==
    LET ls == StreamLines(text)
        heads == { i \in 1..Len(ls) : StartsWithHash(ls[i]) }
        stop == IF heads = { } THEN Len(ls)
                ELSE (CHOOSE i \in heads : \A j \in heads : i <= j) - 1
    IN  SelectSeq(SubSeq(ls, 1, stop), LAMBDA l : ~Blank(l))

Range(f) == { f[i] : i \in DOMAIN f }

RECURSIVE Flat(_)
\* the concatenation of a sequence of sequences
Flat(ss) == IF ss = << >> THEN << >> ELSE ss[1] \o Flat(Tail(ss))

\* all content lines of the parsed device sections, in order
AllContent == Flat([ i \in 1..Len(sections) |-> sections[i].content ])

InCommon(line) == Entry(line) \in common_entries

Kept(section) == SelectSeq(section.content, LAMBDA l : ~InCommon(l))

Survives(section) == \E j \in 1..Len(section.content) : ~InCommon(section.content[j])

\* what a section contributes to the output
Block(section) ==
    IF Survives(section)
    THEN << section.header >> \o Kept(section) \o << << >> >>
    ELSE << >>

\* the provenance block at the top of the output
ProvenanceBlock ==
    IF source_line = None THEN << >> ELSE << RStrip(source_line[1]), << >> >>

\* output_lines after the provenance line and its blank line
OutputBody ==
    IF source_line = None THEN output_lines
    ELSE SubSeq(output_lines, 3, Len(output_lines))

NonBlank(lines) == SelectSeq(lines, LAMBDA l : ~Blank(l))

RECURSIVE IsSubsequence(_, _)
IsSubsequence(a, b) ==
    IF a = << >> THEN TRUE
    ELSE IF b = << >> THEN FALSE
    ELSE IF a[1] = b[1] THEN IsSubsequence(Tail(a), Tail(b))
    ELSE IsSubsequence(a, Tail(b))

\* load_common_entries has returned
Loaded == pc \in { "parse", "filter", "commit" }

\* process_device_file has returned and the device file is still its input
Processed == pc = "commit"

----------------------------------------------------------------------------
(* Properties of filtering, checked under Spec *)

\* C2 (subset property): when process_device_file has returned, the lines
\* it dropped are exactly the content lines of the parsed device sections
\* whose Entry is in common_entries, each counted once in removed_count, and
\* the content lines of the output are exactly those whose Entry is not in
\* common_entries, whatever their inline comments.
C2_SubsetProperty ==
    Processed =>
        /\ removing = SelectSeq(AllContent, InCommon)
        /\ removed_count = Len(SelectSeq(AllContent, InCommon))
        /\ SelectSeq(NonBlank(OutputBody), LAMBDA l : ~StartsWithHash(l))
             = SelectSeq(AllContent, LAMBDA l : ~InCommon(l))

\* a run dropped a commented line whose comment differs from the common
\* file's and kept another content line
C2_Witness ==
    /\ Processed
    /\ \E i \in 1..Len(removing) : removing[i] = EntryAIndented
    /\ \E i \in 1..Len(OutputBody) : OutputBody[i] = CommentOnly
    /\ EntryACommented \in { l \in Range(TrimmedLines(commonText)) : TRUE }

C5_OrderPreservation ==
    Processed =>
        /\ IsSubsequence(NonBlank(OutputBody), TrimmedLines(deviceText))
        /\ NonBlank(OutputBody) =
             Flat([ i \in 1..Len(sections) |->
                      IF Survives(sections[i])
                      THEN << sections[i].header >> \o Kept(sections[i])
                      ELSE << >> ])

\* a section kept two different lines around one that was dropped
C5_Witness ==
    /\ Processed
    /\ removed_count >= 1
    /\ \E i \in 1..Len(sections) :
          LET kept == Kept(sections[i])
          IN  /\ Len(kept) >= 2
              /\ kept[1] # kept[2]
              /\ sections[i].content[1] = kept[1]
              /\ sections[i].content[2] # kept[2]

\* C9 (lines outside any section): the parsed device sections hold exactly
\* the non-blank lines from the first header line on, so a non-blank line
\* before the first header is in no section, is not counted in
\* removed_count and is not in the output, whether or not its Entry is in
\* common_entries; and common_entries holds only the Entries of the common
\* file's lines after its first header line.
C9_LinesOutsideSections ==
    /\ Loaded =>
          common_entries =
              { Entry(l) : l \in { x \in Range(FromFirstHeader(commonText)) :
                                     ~StartsWithHash(x) } } \ { << >> }
    /\ Processed =>
          LET after == NonBlank(FromFirstHeader(deviceText))
              dups  == SelectSeq(after,
                                 LAMBDA l : ~StartsWithHash(l) /\ InCommon(l))
          IN  /\ Flat([ i \in 1..Len(sections) |->
                          << sections[i].header >> \o sections[i].content ])
                   = after
              /\ removed_count = Len(dups)
              /\ IsSubsequence(NonBlank(OutputBody), after)

\* the device file starts with an entry line that is in common_entries,
\* a section follows, and nothing was counted as removed
C9_Witness ==
    /\ Processed
    /\ BeforeFirstHeader(deviceText) # << >>
    /\ InCommon(BeforeFirstHeader(deviceText)[1])
    /\ sections # << >>
    /\ removed_count = 0
    /\ output_lines # << >>

\* C10 (empty entries never match): common_entries never holds the empty
\* string, and when process_device_file has returned every content line
\* with an empty Entry is in the output of its section and none was
\* counted as removed, also when the same line is in the common file.
C10_EmptyEntriesNeverMatch ==
    /\ << >> \notin common_entries
    /\ Processed =>
          /\ \A i \in 1..Len(removing) : Entry(removing[i]) # << >>
          /\ \A i \in 1..Len(sections) :
                SelectSeq(sections[i].content, LAMBDA l : Entry(l) = << >>)
                  = SelectSeq(Kept(sections[i]), LAMBDA l : Entry(l) = << >>)
          /\ SelectSeq(OutputBody, LAMBDA l : ~Blank(l) /\ Entry(l) = << >>
                                              /\ ~StartsWithHash(l))
               = SelectSeq(AllContent, LAMBDA l : Entry(l) = << >>)

\* a comment-only line of a device section is also a content line of the
\* common file, and it is in the output
C10_Witness ==
    /\ Processed
    /\ \E i \in 1..Len(AllContent) : AllContent[i] = CommentOnly
    /\ \E k \in 1..Len(ParseSections(commonText)) :
          \E j \in 1..Len(ParseSections(commonText)[k].content) :
              ParseSections(commonText)[k].content[j] = CommentOnly
    /\ \E i \in 1..Len(OutputBody) : OutputBody[i] = CommentOnly

----------------------------------------------------------------------------
(* Properties of the run's effects on the two files, checked under Spec *)

BothValid == commonStatus = "file" /\ deviceStatus = "file"

----------------------------------------------------------------------------
(* Properties of the provenance line, checked under SpecProv *)

\* some section of the parsed device file survives filtering
SomeSurvives == \E i \in 1..Len(sections) : Survives(sections[i])

\* C1 (idempotence), as claimed: a run on a device file written by an
\* earlier run removes nothing and produces exactly the text it read.
C1_Idempotence ==
    (Processed /\ rewritten) =>
        removed_count = 0 /\ new_content = deviceText

FullElision ==
    /\ Processed
    /\ source_line = None
    /\ AllContent # << >>
    /\ \A i \in 1..Len(AllContent) : InCommon(AllContent[i])

C6_FullElision_Claimed ==
    FullElision => new_content = << >> /\ removed_count = Len(AllContent)

\* C6 as amended: with no provenance line in either file and every content
\* line of every device section a duplicate, the output text is a single
\* newline (no line of content) and removed_count is the number of device
\* content lines.
C6_FullElision ==
    FullElision => new_content = << NL >> /\ removed_count = Len(AllContent)

\* common and device file are both one header and the same entry
C6_Witness ==
    /\ FullElision
    /\ commonText = Header \o << NL >> \o EntryA \o << NL >>
    /\ deviceText = commonText
    /\ removed_count = 1

\* C8 (provenance precedence): when process_device_file has returned, the
\* output starts with the device file's first line (trailing whitespace
\* trimmed) if that line contains the marker, else with the common file's
\* first line (trimmed) if that one contains the marker, and in both cases
\* one such line only: what follows is a blank line and a section header,
\* or nothing; if neither first line contains the marker the output is
\* empty or starts with the header of a parsed section.
C8_ProvenancePrecedence ==
    Processed =>
        LET block ==
              IF HasProvenance(deviceText)
              THEN << RStrip(FirstLine(deviceText)) >>
              ELSE IF HasProvenance(commonText)
              THEN << RStrip(FirstLine(commonText)) >>
              ELSE << >>
            rest == SubSeq(output_lines, Len(block) + 1, Len(output_lines))
            headers == { sections[i].header : i \in 1..Len(sections) }
        IN  /\ SubSeq(output_lines, 1, Len(block)) = block
            /\ Len(output_lines) >= Len(block)
            /\ IF block = << >>
               THEN rest = << >> \/ rest[1] \in headers
               ELSE rest = << >> \/
                    (Len(rest) >= 2 /\ rest[1] = << >> /\ rest[2] \in headers)

\* both files start with a provenance line, the two differ, and a section
\* of the device file survived under the device file's line
C8_Witness ==
    /\ Processed
    /\ HasProvenance(deviceText)
    /\ HasProvenance(commonText)
    /\ FirstLine(commonText) = CommonProvenance \o << NL >>
    /\ output_lines[1] = << EF >>
    /\ Len(output_lines) >= 4

====
